---- MODULE Spec2Model ----
(***************************************************************************)
(* Call signalling of the chat application: App (call handlers) and        *)
(* CallModal (one mounted call view per user), two users A and B sharing   *)
(* the Firebase realtime database, and a third caller T who may write an   *)
(* invitation into B's or A's inbox slot.                                  *)
(*                                                                         *)
(* A starts a call to its selected partner B; B accepts the invitation it  *)
(* finds in its profile.  Every await of CallModal.startCall and of        *)
(* CallModal.switchCamera is a suspension point: the continuation is a     *)
(* separate action, and the effect cleanup (unmount) may run between any   *)
(* two of them.  The specifications at the end are slices of one set of    *)
(* actions over the same state.                                            *)
(***************************************************************************)
EXTENDS Integers, FiniteSets, TLC

\* ---------------------------------------------------------------- bounds
\* Reachability candidates each party's peer session discovers.
MaxCand == 2
\* Notifications a watch may deliver again although the value did not change
\* (at-least-once delivery), over the whole run.
MaxDup == 1
\* The count of onEndCall invocations per user is recorded up to this value.
MaxEndLog == 2
\* Cameras a user's machine can have attached.
MaxCams == 2
\* Capture streams switchCamera acquires per call.
MaxSwitch == 2

\* ------------------------------------------------------------ the parties
None == "none"
Users == {"A", "B"}
\* Owners of a candidate list under calls/{callId}/candidates.
Owners == {"A", "B", "T"}
\* callId of A's outbound call, of the third caller's call, and of a second
\* outbound call of A.
Calls == {"cA", "cT", "cA2"}

\* App.selectedPartner: A has selected B in the sidebar, B has selected nobody.
selectedPartner == [u \in Users |-> IF u = "A" THEN "B" ELSE None]

\* callId of a call user u initiates: `${currentUser.uid}_${Date.now()}`.
NewCallId(u) == IF u = "A" THEN "cA" ELSE None

\* IncomingCallData.callerId of the invitation of call c.
CallerId(c) == IF c \in {"cA", "cA2"} THEN "A" ELSE "T"

\* callId of the next call user u initiates: Date.now() has advanced.
SecondCallId(u) == IF u = "A" THEN "cA2" ELSE None

Min(a, b) == IF a < b THEN a ELSE b

\* The video input devices, and the video tracks a call can create: the one
\* of the call's capture stream and one per stream switchCamera acquires.
Cameras == 1..MaxCams
Tracks == 1..(MaxSwitch + 1)

VARIABLES
    db,      \* the realtime database: status, answer, candidates, incomingCall
    app,     \* App state per user: isInCall, incomingCall
    modal,   \* CallModal refs and state per user
    watch,   \* the onValue subscriptions of each user's CallModal
    hist,    \* history: what each user's CallModal has done so far
    dups,    \* duplicate notifications delivered so far
    third,   \* what the third caller has done: "idle", "invited" (B),
             \* "invitedA", "ended"
    devices  \* the cameras attached to each user's machine

vars == <<db, app, modal, watch, hist, dups, third, devices>>

\* ------------------------------------------------------------------ Init
InitDb ==
    [status       |-> [c \in Calls |-> None],
     answer       |-> [c \in Calls |-> FALSE],
     candidates   |-> [c \in Calls |-> [o \in Owners |-> 0]],
     incomingCall |-> [u \in Users |-> None]]

InitModal ==
    [callId           |-> None,
     isInitiator      |-> FALSE,
     pc               |-> "idle",
     localStream      |-> "null",
     peerConnection   |-> "null",
     connectionState  |-> "new",
     connectionStatus |-> "Connecting...",
     localDescription |-> FALSE,
     currentRemoteDescription |-> FALSE,
     srdPending       |-> 0,
     addPending       |-> 0,      \* addIceCandidate calls not settled yet
     timer            |-> FALSE,
     oldTimer         |-> FALSE,  \* a setTimeout of an earlier modal pending
     statusWrite      |-> "none",
     hasMultipleCameras |-> FALSE,
     enumPending      |-> FALSE,  \* enumerateDevices() of the mount pending
     trackDevice      |-> [t \in Tracks |-> 0],  \* deviceId of each video track
     liveTracks       |-> {},     \* video tracks created and not stopped
     videoTrack       |-> 0,      \* localStream.current.getVideoTracks()[0]
     senderTrack      |-> 0,      \* track of the peer session's video sender
     preview          |-> "null", \* localVideoRef.current.srcObject
     sw               |-> "idle", \* position of a running switchCamera
     swNext           |-> 0,      \* its nextDevice
     swCurrent        |-> 0,      \* its currentTrack
     swNew            |-> 0]      \* its newTrack

InitWatch ==
    [status |-> FALSE, answer |-> FALSE, candidates |-> FALSE,
     statusSeen |-> "unset", answerSeen |-> "unset", candSeen |-> -1]

InitHist ==
    [srdCalls   |-> 0,
     srdErrors  |-> 0,
     addCount   |-> [i \in 1..MaxCand |-> 0],
     applied    |-> {},        \* candidates added to a remote description
     cleanups   |-> 0,
     endCalls   |-> 0,
     everActive |-> FALSE,
     createdBy  |-> None,      \* the App handler that mounted the modal
     statusWrites |-> 0,       \* set(status, 'active') calls
     offerCalls |-> 0,         \* createOffer calls
     answerCalls |-> 0,        \* createAnswer calls
     wroteInvite |-> FALSE,    \* the invitation write was applied
     wroteAnswer |-> FALSE,    \* the answer write was applied
     switchFailed |-> FALSE,   \* a switchCamera entered its catch block
     failure    |-> None,      \* what made startCall enter its catch block
     rejected   |-> {},        \* the store writes rejected so far, by kind
     declined   |-> None]      \* the invitation the user rejected

Init ==
    /\ db = InitDb
    /\ app = [u \in Users |-> [isInCall |-> FALSE, incomingCall |-> None]]
    /\ modal = [u \in Users |-> InitModal]
    /\ watch = [u \in Users |-> InitWatch]
    /\ hist = [u \in Users |-> InitHist]
    /\ dups = 0
    /\ third = "idle"
    /\ devices = [u \in Users |-> Cameras]

\* The program state as one record, so that a handler is a function from
\* state to state and handlers compose (a callback that calls onEndCall).
State == [db |-> db, app |-> app, modal |-> modal, watch |-> watch, hist |-> hist]

Apply(s) ==
    /\ db' = s.db
    /\ app' = s.app
    /\ modal' = s.modal
    /\ watch' = s.watch
    /\ hist' = s.hist

\* ------------------------------------------------- effect cleanup, endCall
\* localStream.current.getTracks().forEach(track => track.stop())
StopTracks(m) == IF m.localStream = "live" THEN "stopped" ELSE m.localStream

\* peerConnection.current.close()
ClosePeer(m) == IF m.peerConnection = "open" THEN "closed" ELSE m.peerConnection

\* update(ref(db, `calls/${callId}`), { status: 'ended' })
WriteEnded(d, c) == [d EXCEPT !.status[c] = "ended"]

\* RemoveInvitation with the removal made to depend on the responder: the
\* slot is cleared only once an answer exists.
RemoveInvitationOnceAnswered(d, u, m) ==
    IF ~d.answer[m.callId] THEN d
    ELSE IF m.isInitiator /\ selectedPartner[u] # None
    THEN [d EXCEPT !.incomingCall[selectedPartner[u]] = None]
    ELSE IF ~m.isInitiator
    THEN [d EXCEPT !.incomingCall[u] = None]
    ELSE d

\* remove(ref(db, `users/.../incomingCall`)): the initiator clears its
\* partner's slot, the responder its own; whatever the slot holds.
RemoveInvitation(d, u, m) ==
    IF m.isInitiator /\ selectedPartner[u] # None
    THEN [d EXCEPT !.incomingCall[selectedPartner[u]] = None]
    ELSE IF ~m.isInitiator
    THEN [d EXCEPT !.incomingCall[u] = None]
    ELSE d

\* off(callStatusRef); off(answer ref) for the initiator; off(candidates ref).
Unsubscribe(w, u, m) ==
    [w EXCEPT !.status = FALSE,
              !.answer = IF m.isInitiator /\ selectedPartner[u] # None
                         THEN FALSE ELSE @,
              !.candidates = FALSE]

\* The function returned by the effect: runs when the CallModal unmounts.
Cleanup(s, u) ==
    LET m == s.modal[u] IN
    [s EXCEPT !.modal[u].localStream = StopTracks(m),
              !.modal[u].liveTracks = @ \ {m.videoTrack},
              !.modal[u].peerConnection = ClosePeer(m),
              !.modal[u].connectionState =
                  IF m.peerConnection = "open" THEN "closed" ELSE @,
              !.db = RemoveInvitation(WriteEnded(s.db, m.callId), u, m),
              !.watch[u] = Unsubscribe(s.watch[u], u, m),
              !.hist[u].cleanups = @ + 1]

\* EndCall with the teardown run on every invocation, mounted or not.
EndCallAlwaysCleans(s, u) ==
    [Cleanup(s, u) EXCEPT !.app[u] = [isInCall |-> FALSE, incomingCall |-> None],
                          !.hist[u].endCalls = Min(@ + 1, MaxEndLog)]

\* App.endCall: setIsInCall(false); setIncomingCall(null).  The CallModal is
\* rendered only while isInCall, so the first call unmounts it and runs the
\* effect cleanup; a later call finds nothing mounted.
EndCall(s, u) ==
    LET s1 == IF s.app[u].isInCall THEN Cleanup(s, u) ELSE s IN
    [s1 EXCEPT !.app[u] = [isInCall |-> FALSE, incomingCall |-> None],
               !.hist[u].endCalls = Min(@ + 1, MaxEndLog)]

\* ------------------------------------------------------ App call handlers
\* The CallModal mounts: callId and role are fixed from the props, the
\* status watch is registered and startCall() is called, which suspends
\* at getUserMedia.
Mount(s, u) ==
    LET inc == s.app[u].incomingCall IN
    [s EXCEPT !.app[u].isInCall = TRUE,
              !.modal[u].enumPending = TRUE,
              !.modal[u].callId = IF inc # None THEN inc ELSE NewCallId(u),
              !.modal[u].isInitiator = (inc = None),
              !.modal[u].pc = "gum",
              !.watch[u].status = TRUE]

\* App.startCall (the call button of the chat with the selected partner).
StartCall(u) ==
    /\ ~app[u].isInCall
    /\ selectedPartner[u] # None
    /\ modal[u].pc = "idle"
    /\ Apply(Mount([State EXCEPT !.hist[u].createdBy = "start"], u))
    /\ UNCHANGED <<dups, third, devices>>

\* App.acceptCall (the Accept button of the incoming-call notification).
AcceptCall(u) ==
    /\ ~app[u].isInCall
    /\ app[u].incomingCall # None
    /\ modal[u].pc = "idle"
    /\ Apply(Mount([State EXCEPT !.hist[u].createdBy = "accept"], u))
    /\ UNCHANGED <<dups, third, devices>>

\* rejectCall writing status 'ended' for the call it rejects.
RejectCallEndsSession(s, u) ==
    [s EXCEPT !.db.incomingCall[u] = None,
              !.db.status[s.app[u].incomingCall] = "ended",
              !.app[u].incomingCall = None,
              !.hist[u].declined = s.app[u].incomingCall]

\* App.rejectCall: the user's own inbox slot is set to null and the
\* incoming-call state cleared (the user is signed in).
RejectCall(s, u) ==
    [s EXCEPT !.db.incomingCall[u] = None,
              !.app[u].incomingCall = None,
              !.hist[u].declined = s.app[u].incomingCall]

\* The Reject button of the incoming-call notification, which is rendered
\* while there is an incoming call and no call is mounted.
RejectClick(u) ==
    /\ app[u].incomingCall # None
    /\ ~app[u].isInCall
    /\ Apply(RejectCall(State, u))
    /\ UNCHANGED <<dups, third, devices>>

\* The End Call button of the mounted CallModal.
EndClick(u) ==
    /\ app[u].isInCall
    /\ Apply(EndCall(State, u))
    /\ UNCHANGED <<dups, third, devices>>

\* App's watch of users/{uid}: setIncomingCall(val.incomingCall || null).
ProfileNotify(u) ==
    /\ app[u].incomingCall # db.incomingCall[u]
    /\ app' = [app EXCEPT ![u].incomingCall = db.incomingCall[u]]
    /\ UNCHANGED <<db, modal, watch, hist, dups, third, devices>>

\* ------------------------------------------------- CallModal.startCall
\* setConnectionStatus: a state update of an unmounted component is dropped.
SetConnectionStatus(s, u, v) ==
    IF s.app[u].isInCall THEN [s EXCEPT !.modal[u].connectionStatus = v] ELSE s

\* CatchStartCall calling onEndCall at once instead of after the delay.
CatchStartCallEndsAtOnce(s, u) ==
    EndCall([SetConnectionStatus(s, u, "Failed to access media devices")
                EXCEPT !.modal[u].pc = "failed"], u)

\* The catch block of startCall.
CatchStartCall(s, u) ==
    [SetConnectionStatus(s, u, "Failed to access media devices")
        EXCEPT !.modal[u].pc = "failed", !.modal[u].timer = TRUE]

\* BeginSignaling with the responder sending its answer before anything else.
BeginSignalingAnswersFirst(s, u) ==
    LET m == s.modal[u] IN
    IF m.isInitiator /\ selectedPartner[u] # None
    THEN [s EXCEPT !.db.status[m.callId] = "active",
                   !.hist[u].statusWrites = @ + 1,
                   !.hist[u].offerCalls = @ + 1,
                   !.modal[u].pc = "createOffer"]
    ELSE [s EXCEPT !.db.answer[m.callId] = TRUE,
                   !.hist[u].srdCalls = @ + 1,
                   !.modal[u].pc = "setRemote"]

\* BeginSignaling with the initiator writing its invitation before anything
\* else.
BeginSignalingInvitesFirst(s, u) ==
    LET m == s.modal[u] IN
    IF m.isInitiator /\ selectedPartner[u] # None
    THEN [s EXCEPT !.db.incomingCall[selectedPartner[u]] = m.callId,
                   !.hist[u].wroteInvite = TRUE,
                   !.db.status[m.callId] = "active",
                   !.hist[u].statusWrites = @ + 1,
                   !.hist[u].offerCalls = @ + 1,
                   !.modal[u].pc = "createOffer"]
    ELSE [s EXCEPT !.hist[u].srdCalls = @ + 1,
                   !.modal[u].pc = "setRemote"]

\* Step 3 of startCall up to its first await, by role: the initiator writes
\* status 'active' and calls createOffer; the responder calls
\* setRemoteDescription(incomingCall.offer).
BeginSignaling(s, u) ==
    LET m == s.modal[u] IN
    IF m.isInitiator /\ selectedPartner[u] # None
    THEN [s EXCEPT !.db.status[m.callId] = "active",
                   !.hist[u].statusWrites = @ + 1,
                   !.hist[u].offerCalls = @ + 1,
                   !.modal[u].pc = "createOffer"]
    ELSE [s EXCEPT !.hist[u].srdCalls = @ + 1,
                   !.modal[u].pc = "setRemote"]

\* The camera getUserMedia({video: {facingMode: 'user'}}) opens: the first
\* of the attached cameras.
DefaultCamera(ds) == CHOOSE d \in ds : \A x \in ds : d <= x

\* localStream.current = stream; the preview shows it if the video element
\* is mounted.  The stream's video track is track 1.
AcquireStream(s, u) ==
    [s EXCEPT !.modal[u].localStream = "live",
              !.modal[u].trackDevice[1] = DefaultCamera(devices[u]),
              !.modal[u].liveTracks = {1},
              !.modal[u].videoTrack = 1,
              !.modal[u].preview = IF s.app[u].isInCall THEN "localStream" ELSE @]

\* getUserMedia resolves: localStream.current = stream, a new
\* RTCPeerConnection gets the tracks and the three callbacks, and the
\* signaling begins.  Nothing here looks at whether the modal is mounted.
AcquireAndCreatePeer(s, u) ==
    BeginSignaling([AcquireStream(s, u) EXCEPT
                             !.modal[u].senderTrack = 1,
                             !.modal[u].peerConnection = "open",
                             !.modal[u].connectionState = "new"], u)

GumResolve(u) ==
    /\ modal[u].pc = "gum"
    /\ Apply(AcquireAndCreatePeer(State, u))
    /\ UNCHANGED <<dups, third, devices>>

\* getUserMedia rejects (permission denied, no device).
GumReject(u) ==
    /\ modal[u].pc = "gum"
    /\ Apply(CatchStartCall([State EXCEPT !.hist[u].failure = "media"], u))
    /\ UNCHANGED <<dups, third, devices>>

\* An operation pending on a peer session settles only while the session is
\* open: once close() has run its promise never settles.
PeerSettles(u) == modal[u].peerConnection = "open"

\* createOffer resolves; setLocalDescription(offer) is called.
CreateOfferResolve(u) ==
    /\ modal[u].pc = "createOffer"
    /\ PeerSettles(u)
    /\ modal' = [modal EXCEPT ![u].pc = "setLocal"]
    /\ UNCHANGED <<db, app, watch, hist, dups, third, devices>>

\* setRemoteDescription(offer) resolves; createAnswer is called.
SetRemoteResolve(u) ==
    /\ modal[u].pc = "setRemote"
    /\ PeerSettles(u)
    /\ modal' = [modal EXCEPT ![u].currentRemoteDescription = TRUE,
                              ![u].pc = "createAnswer"]
    /\ hist' = [hist EXCEPT ![u].answerCalls = @ + 1]
    /\ UNCHANGED <<db, app, watch, dups, third, devices>>

\* createAnswer resolves; setLocalDescription(answer) is called.
CreateAnswerResolve(u) ==
    /\ modal[u].pc = "createAnswer"
    /\ PeerSettles(u)
    /\ modal' = [modal EXCEPT ![u].pc = "setLocal"]
    /\ UNCHANGED <<db, app, watch, hist, dups, third, devices>>

\* The store write issued once the local description is set: the initiator
\* sets users/{partner.uid}/incomingCall, the responder calls/{callId}/answer.
PublishDescription(s, u) ==
    LET m == s.modal[u] IN
    IF m.isInitiator
    THEN [s EXCEPT !.db.incomingCall[selectedPartner[u]] = m.callId,
                   !.hist[u].wroteInvite = TRUE,
                   !.modal[u].pc = "inviteWrite"]
    ELSE [s EXCEPT !.db.answer[m.callId] = TRUE,
                   !.hist[u].wroteAnswer = TRUE,
                   !.modal[u].pc = "answerWrite"]

\* setLocalDescription resolves and the description is published.
SetLocalResolve(u) ==
    /\ modal[u].pc = "setLocal"
    /\ PeerSettles(u)
    /\ Apply(PublishDescription(
                [State EXCEPT !.modal[u].localDescription = TRUE], u))
    /\ UNCHANGED <<dups, third, devices>>

\* onValue(answerRef, ...) of the initiator, after the awaited invitation write.
WatchAnswer(s, u) ==
    IF s.modal[u].isInitiator
    THEN [s EXCEPT !.watch[u].answer = TRUE, !.watch[u].answerSeen = "unset"]
    ELSE s

\* Step 4: onValue(remoteCandidatesRef, ...); startCall returns.
WatchCandidates(s, u) ==
    [s EXCEPT !.watch[u].candidates = TRUE, !.watch[u].candSeen = -1,
              !.modal[u].pc = "done"]

\* The awaited store write is acknowledged: the rest of startCall runs.
WriteAck(u) ==
    /\ modal[u].pc \in {"inviteWrite", "answerWrite"}
    /\ Apply(WatchCandidates(WatchAnswer(State, u), u))
    /\ UNCHANGED <<dups, third, devices>>

\* setTimeout(onEndCall, 3000) of the catch block fires.
TimerFire(u) ==
    /\ modal[u].timer
    /\ Apply(EndCall([State EXCEPT !.modal[u].timer = FALSE], u))
    /\ UNCHANGED <<dups, third, devices>>

\* ------------------------------------------------------- a second call
\* App.startCall pressed again after a call whose media capture failed and
\* whose modal is unmounted: a new CallModal mounts with new state, refs and
\* callId.  Of the earlier modal only its setTimeout can still be pending.
Remount(s, u) ==
    LET inc == s.app[u].incomingCall IN
    [s EXCEPT !.app[u].isInCall = TRUE,
              !.modal[u] = [InitModal EXCEPT
                               !.callId = IF inc # None THEN inc ELSE SecondCallId(u),
                               !.isInitiator = (inc = None),
                               !.pc = "gum",
                               !.enumPending = TRUE,
                               !.oldTimer = s.modal[u].timer \/ s.modal[u].oldTimer],
              !.watch[u] = [InitWatch EXCEPT !.status = TRUE],
              !.hist[u].createdBy = "start"]

StartAgain(u) ==
    /\ ~app[u].isInCall
    /\ selectedPartner[u] # None
    /\ modal[u].pc = "failed" /\ hist[u].failure = "media"
    /\ modal[u].callId = NewCallId(u)
    /\ Apply(Remount(State, u))
    /\ UNCHANGED <<dups, third, devices>>

\* The setTimeout(onEndCall, 3000) of the earlier modal fires: onEndCall is
\* App.endCall.
OldTimerFire(u) ==
    /\ modal[u].oldTimer
    /\ Apply(EndCall([State EXCEPT !.modal[u].oldTimer = FALSE], u))
    /\ UNCHANGED <<dups, third, devices>>

\* ------------------------------------------------ failures of the setup
\* new RTCPeerConnection(servers) throws: the stream is already stored in
\* localStream.current, no peer session exists, the catch block runs.
PeerCreationThrows(u) ==
    /\ modal[u].pc = "gum"
    /\ Apply(CatchStartCall([AcquireStream(State, u) EXCEPT
                                          !.hist[u].failure = "setup"], u))
    /\ UNCHANGED <<dups, third, devices>>

\* The awaited createOffer, setRemoteDescription(offer), createAnswer or
\* setLocalDescription rejects: the catch block runs.
SetupThrow(u) ==
    /\ modal[u].pc \in {"createOffer", "setRemote", "createAnswer", "setLocal"}
    /\ PeerSettles(u)
    /\ Apply(CatchStartCall([State EXCEPT !.hist[u].failure = "setup"], u))
    /\ UNCHANGED <<dups, third, devices>>

\* setLocalDescription resolves and the description is sent with a write the
\* store is going to reject: the store's content does not change.
SetLocalResolveDenied(u) ==
    /\ modal[u].pc = "setLocal"
    /\ PeerSettles(u)
    /\ modal' = [modal EXCEPT ![u].localDescription = TRUE,
                              ![u].pc = IF modal[u].isInitiator
                                        THEN "inviteDenied" ELSE "answerDenied"]
    /\ UNCHANGED <<db, app, watch, hist, dups, third, devices>>

\* The kind of the awaited write pending at position pc.
AwaitedWrite(pc) == IF pc = "inviteDenied" THEN "invitation" ELSE "answer"

\* The awaited set(...) rejects: the catch block runs.
WriteReject(u) ==
    /\ modal[u].pc \in {"inviteDenied", "answerDenied"}
    /\ Apply(CatchStartCall(
                [State EXCEPT !.hist[u].failure = "write",
                              !.hist[u].rejected = @ \cup {AwaitedWrite(modal[u].pc)}], u))
    /\ UNCHANGED <<dups, third, devices>>

\* getUserMedia resolves as in GumResolve, and the initiator's
\* set(calls/{callId}/status, 'active') is a write the store is going to
\* reject: the status is not stored.
GumResolveStatusDenied(u) ==
    /\ modal[u].pc = "gum"
    /\ modal[u].isInitiator /\ selectedPartner[u] # None
    /\ Apply([AcquireAndCreatePeer(State, u) EXCEPT !.db.status = db.status,
                                                     !.modal[u].statusWrite = "denied"])
    /\ UNCHANGED <<dups, third, devices>>

\* The promise of set(status, 'active') rejects.  It is neither awaited nor
\* given a catch handler: no code of CallModal runs.
StatusWriteRejected(u) ==
    /\ modal[u].statusWrite = "denied"
    /\ modal' = [modal EXCEPT ![u].statusWrite = "none"]
    /\ hist' = [hist EXCEPT ![u].rejected = @ \cup {"status"}]
    /\ UNCHANGED <<db, app, watch, dups, third, devices>>

\* onicecandidate pushes a candidate and the store rejects the write: the
\* promise of push(...) is neither awaited nor given a catch handler.
CandidateWriteRejected(u) ==
    /\ modal[u].peerConnection = "open"
    /\ modal[u].localDescription
    /\ "candidate" \notin hist[u].rejected
    /\ hist' = [hist EXCEPT ![u].rejected = @ \cup {"candidate"}]
    /\ UNCHANGED <<db, app, modal, watch, dups, third, devices>>

\* --------------------------------------------------------- third caller
\* T's CallModal, as initiator of a call to B, reaches its invitation write:
\* status 'active' of its own call, then its invitation in B's slot.
ThirdInvite ==
    /\ third = "idle"
    /\ db' = [db EXCEPT !.status["cT"] = "active", !.incomingCall["B"] = "cT"]
    /\ third' = "invited"
    /\ UNCHANGED <<app, modal, watch, hist, dups, devices>>

\* T's CallModal unmounts: the same cleanup, run by T.
ThirdEnd ==
    /\ third = "invited"
    /\ db' = [db EXCEPT !.status["cT"] = "ended", !.incomingCall["B"] = None]
    /\ third' = "ended"
    /\ UNCHANGED <<app, modal, watch, hist, dups, devices>>

\* T's CallModal, as initiator of a call to A, reaches its invitation write.
ThirdInviteA ==
    /\ third = "idle"
    /\ db' = [db EXCEPT !.status["cT"] = "active", !.incomingCall["A"] = "cT"]
    /\ third' = "invitedA"
    /\ UNCHANGED <<app, modal, watch, hist, dups, devices>>

\* T's CallModal of its call to A unmounts.
ThirdEndA ==
    /\ third = "invitedA"
    /\ db' = [db EXCEPT !.status["cT"] = "ended", !.incomingCall["A"] = None]
    /\ third' = "ended"
    /\ UNCHANGED <<app, modal, watch, hist, dups, devices>>

\* ------------------------------------------------------ store watches
\* The store's delivery contract for a subscribed watch: the current value is
\* delivered when it differs from the value delivered last (the first
\* delivery included), and a value already delivered may be delivered again.
Deliver(seen, val) ==
    \/ seen # val /\ dups' = dups
    \/ seen = val /\ dups < MaxDup /\ dups' = dups + 1

\* IsEnded comparing with a value the cleanup never writes.
IsEndedMisspelt(val) == val = "end"

\* handleStatusChange decides whether to call onEndCall.
IsEnded(val) == val = "ended"

\* handleStatusChange, the callback of the watch of calls/{callId}/status.
HandleStatusChange(s, u, val) ==
    LET s1 == [s EXCEPT !.watch[u].statusSeen = val] IN
    IF IsEnded(val) THEN EndCall(s1, u) ELSE s1

StatusNotify(u) ==
    /\ watch[u].status
    /\ LET val == db.status[modal[u].callId] IN
       /\ Deliver(watch[u].statusSeen, val)
       /\ Apply(HandleStatusChange(State, u, val))
    /\ UNCHANGED <<third, devices>>

\* The guard of the answer callback:
\* data && !peerConnection.current?.currentRemoteDescription
ShouldApplyAnswer(m, data) == data /\ ~m.currentRemoteDescription

\* HandleAnswer ignoring the value the watch delivers at its registration.
HandleAnswerSkipsInitial(s, u, data) ==
    LET m == s.modal[u]
        s1 == [s EXCEPT !.watch[u].answerSeen = IF data THEN "answer" ELSE "null"]
    IN
    IF s.watch[u].answerSeen = "unset" \/ ~(data /\ ~m.currentRemoteDescription) THEN s1
    ELSE IF m.peerConnection = "open"
    THEN [s1 EXCEPT !.hist[u].srdCalls = @ + 1, !.modal[u].srdPending = @ + 1]
    ELSE [s1 EXCEPT !.hist[u].srdCalls = @ + 1, !.hist[u].srdErrors = @ + 1]

\* HandleAnswer also showing 'Connected' as soon as it applies the answer.
HandleAnswerShowsConnected(s, u, data) ==
    LET m == s.modal[u]
        s1 == [s EXCEPT !.watch[u].answerSeen = IF data THEN "answer" ELSE "null"]
    IN
    IF ~ShouldApplyAnswer(m, data) THEN s1
    ELSE IF m.peerConnection = "open"
    THEN [SetConnectionStatus(s1, u, "Connected")
             EXCEPT !.hist[u].srdCalls = @ + 1, !.modal[u].srdPending = @ + 1]
    ELSE [s1 EXCEPT !.hist[u].srdCalls = @ + 1, !.hist[u].srdErrors = @ + 1]

\* The callback of the watch of calls/{callId}/answer.  On a closed peer
\* session setRemoteDescription returns a rejected promise nobody handles.
HandleAnswer(s, u, data) ==
    LET m == s.modal[u]
        s1 == [s EXCEPT !.watch[u].answerSeen = IF data THEN "answer" ELSE "null"]
    IN
    IF ~ShouldApplyAnswer(m, data) THEN s1
    ELSE IF m.peerConnection = "open"
    THEN [s1 EXCEPT !.hist[u].srdCalls = @ + 1, !.modal[u].srdPending = @ + 1]
    ELSE [s1 EXCEPT !.hist[u].srdCalls = @ + 1, !.hist[u].srdErrors = @ + 1]

AnswerNotify(u) ==
    /\ watch[u].answer
    /\ LET data == db.answer[modal[u].callId] IN
       /\ Deliver(watch[u].answerSeen, IF data THEN "answer" ELSE "null")
       /\ Apply(HandleAnswer(State, u, data))
    /\ UNCHANGED <<third, devices>>

\* A setRemoteDescription(answer) started by the answer callback completes:
\* the first one sets currentRemoteDescription; a later one finds the
\* negotiation already stable and rejects (InvalidStateError), unhandled.
SrdComplete(u) ==
    /\ modal[u].srdPending > 0
    /\ PeerSettles(u)
    /\ IF modal[u].currentRemoteDescription
       THEN /\ modal' = [modal EXCEPT ![u].srdPending = @ - 1]
            /\ hist' = [hist EXCEPT ![u].srdErrors = @ + 1]
       ELSE /\ modal' = [modal EXCEPT ![u].srdPending = @ - 1,
                                      ![u].currentRemoteDescription = TRUE]
            /\ hist' = hist
    /\ UNCHANGED <<db, app, watch, dups, third, devices>>

\* ------------------------------------------------------ candidate relay
\* partnerId of step 4 and of the cleanup.
PartnerId(u, m) ==
    IF m.isInitiator /\ selectedPartner[u] # None
    THEN selectedPartner[u] ELSE CallerId(m.callId)

\* snapshot.forEach(child => addIceCandidate(child.val())) over a snapshot
\* of n candidates: the addIceCandidate calls made so far, per candidate.
AddAll(count, n) == [i \in DOMAIN count |-> IF i <= n THEN count[i] + 1 ELSE count[i]]

\* The callback of the watch of calls/{callId}/candidates/{partnerId}.
\* Every addIceCandidate call is started at once, none is awaited.  The
\* peer session runs its operations one after the other, so a call is
\* accepted when the remote description is set or a setRemoteDescription
\* is pending before it, and rejects (caught, logged) otherwise; on a closed
\* peer session it rejects at once.
HandleCandidates(s, u, n) ==
    LET m == s.modal[u]
        open == m.peerConnection = "open"
        described == m.currentRemoteDescription \/ m.srdPending > 0
    IN
    [s EXCEPT !.watch[u].candSeen = n,
              !.hist[u].addCount = AddAll(@, n),
              !.modal[u].addPending = IF open THEN @ + n ELSE @,
              !.hist[u].applied = IF open /\ described THEN @ \cup (1..n) ELSE @]

CandidatesNotify(u) ==
    /\ watch[u].candidates
    /\ LET n == db.candidates[modal[u].callId][PartnerId(u, modal[u])] IN
       /\ Deliver(watch[u].candSeen, n)
       /\ Apply(HandleCandidates(State, u, n))
    /\ UNCHANGED <<third, devices>>

\* The promise of one addIceCandidate call settles.
AddSettles(u) ==
    /\ modal[u].addPending > 0
    /\ PeerSettles(u)
    /\ modal' = [modal EXCEPT ![u].addPending = @ - 1]
    /\ UNCHANGED <<db, app, watch, hist, dups, third, devices>>

\* onicecandidate: push(candidatesRef, event.candidate.toJSON()).  Gathering
\* starts once the local description is set.
LocalCandidate(u) ==
    /\ modal[u].peerConnection = "open"
    /\ modal[u].localDescription
    /\ db.candidates[modal[u].callId][u] < MaxCand
    /\ db' = [db EXCEPT !.candidates[modal[u].callId][u] = @ + 1]
    /\ UNCHANGED <<app, modal, watch, hist, dups, third, devices>>

\* ------------------------------------------------------ connection state
\* The connection states an open peer session can report next.
CanReport(m, st) ==
    /\ m.peerConnection = "open"
    /\ CASE st = "connecting"   -> /\ m.connectionState = "new"
                                   /\ m.localDescription \/ m.currentRemoteDescription
         [] st = "connected"    -> /\ m.connectionState \in {"connecting", "disconnected"}
                                   /\ m.localDescription /\ m.currentRemoteDescription
         [] st = "disconnected" -> m.connectionState \in {"connecting", "connected"}
         [] st = "failed"       -> m.connectionState \in {"connecting", "disconnected"}
         [] OTHER               -> FALSE

\* What onconnectionstatechange shows for a reported state.
StatusShown(old, st) ==
    IF st = "connected" THEN "Connected"
    ELSE IF st \in {"disconnected", "failed"} THEN "Disconnected"
    ELSE old

\* OnConnectionStateChange ending the call on 'failed' only.
OnConnectionStateChangeFailedOnly(s, u, st) ==
    LET shown == StatusShown(s.modal[u].connectionStatus, st)
        s1 == SetConnectionStatus([s EXCEPT !.modal[u].connectionState = st], u, shown)
        s2 == [s1 EXCEPT !.hist[u].everActive =
                            @ \/ s1.modal[u].connectionStatus = "Connected"]
    IN
    IF st = "failed" THEN EndCall(s2, u) ELSE s2

\* onconnectionstatechange
OnConnectionStateChange(s, u, st) ==
    LET shown == StatusShown(s.modal[u].connectionStatus, st)
        s1 == SetConnectionStatus([s EXCEPT !.modal[u].connectionState = st], u, shown)
        s2 == [s1 EXCEPT !.hist[u].everActive =
                            @ \/ s1.modal[u].connectionStatus = "Connected"]
    IN
    IF st \in {"disconnected", "failed"} THEN EndCall(s2, u) ELSE s2

ConnectionStateChange(u) ==
    \E st \in {"connecting", "connected", "disconnected", "failed"} :
        /\ CanReport(modal[u], st)
        /\ Apply(OnConnectionStateChange(State, u, st))
        /\ UNCHANGED <<dups, third, devices>>

\* ------------------------------------------------------ camera switching
\* Calls are video calls with the camera on; one switchCamera runs at a time.
\*
\* A camera is attached to user u's machine.
Plug(u) ==
    \E d \in Cameras \ devices[u] :
        /\ devices' = [devices EXCEPT ![u] = @ \cup {d}]
        /\ UNCHANGED <<db, app, modal, watch, hist, dups, third>>

\* A camera is removed, another one staying attached: its tracks end.
Unplug(u) ==
    \E d \in devices[u] :
        /\ devices[u] # {d}
        /\ devices' = [devices EXCEPT ![u] = @ \ {d}]
        /\ modal' = [modal EXCEPT ![u].liveTracks =
                        {t \in @ : modal[u].trackDevice[t] # d}]
        /\ UNCHANGED <<db, app, watch, hist, dups, third>>

\* enumerateDevices().then(...) of the mount effect:
\* setHasMultipleCameras(videoInputs.length > 1), dropped when unmounted.
EnumerateAtMount(u) ==
    /\ modal[u].enumPending
    /\ modal' = [modal EXCEPT ![u].enumPending = FALSE,
                              ![u].hasMultipleCameras =
                                  IF app[u].isInCall
                                  THEN Cardinality(devices[u]) > 1 ELSE @]
    /\ UNCHANGED <<db, app, watch, hist, dups, third, devices>>

\* The switch button, rendered while hasMultipleCameras; switchCamera
\* passes its guard and calls enumerateDevices().
SwitchClick(u) ==
    /\ app[u].isInCall
    /\ modal[u].hasMultipleCameras
    /\ modal[u].localStream # "null"
    /\ modal[u].sw = "idle"
    /\ \E t \in Tracks : modal[u].trackDevice[t] = 0
    /\ modal' = [modal EXCEPT ![u].sw = "enum"]
    /\ UNCHANGED <<db, app, watch, hist, dups, third, devices>>

\* videoInputs is the list of attached cameras in the order of their ids:
\* the position of camera d in it.
IndexOf(ds, d) == Cardinality({x \in ds : x < d})

\* videoInputs.findIndex(d => d.deviceId === currentDeviceId)
FindIndex(ds, dev) == IF dev \in ds THEN IndexOf(ds, dev) ELSE -1

\* NextDevice skipping one position.
NextDeviceSkips(ds, dev) ==
    CHOOSE d \in ds : IndexOf(ds, d) = (FindIndex(ds, dev) + 2) % Cardinality(ds)

\* videoInputs[(currentIndex + 1) % videoInputs.length]
NextDevice(ds, dev) ==
    CHOOSE d \in ds : IndexOf(ds, d) = (FindIndex(ds, dev) + 1) % Cardinality(ds)

\* enumerateDevices() of switchCamera resolves: currentTrack and nextDevice
\* are computed and getUserMedia is called for nextDevice.
SwitchEnumerated(u) ==
    /\ modal[u].sw = "enum"
    /\ LET cur == modal[u].videoTrack IN
       modal' = [modal EXCEPT ![u].sw = "gum",
                              ![u].swCurrent = cur,
                              ![u].swNext = NextDevice(devices[u], modal[u].trackDevice[cur])]
    /\ UNCHANGED <<db, app, watch, hist, dups, third, devices>>

\* The first track not created yet.
FreshTrack(m) == CHOOSE t \in Tracks :
                    m.trackDevice[t] = 0 /\ \A x \in Tracks : x < t => m.trackDevice[x] # 0

\* ExchangeTrack followed by a new offer published under the call.
ExchangeTrackRenegotiates(s, u) ==
    LET m == s.modal[u] IN
    [s EXCEPT !.modal[u].videoTrack = m.swNew,
              !.modal[u].preview = IF s.app[u].isInCall THEN "localStream" ELSE @,
              !.modal[u].sw = "idle",
              !.hist[u].offerCalls = @ + 1,
              !.db.status[m.callId] = "active"]

\* The end of switchCamera's try block: the stream's video track is
\* exchanged and the preview is given the stream again.
ExchangeTrack(s, u) ==
    LET m == s.modal[u] IN
    [s EXCEPT !.modal[u].videoTrack = m.swNew,
              !.modal[u].preview = IF s.app[u].isInCall THEN "localStream" ELSE @,
              !.modal[u].sw = "idle"]

\* getUserMedia of switchCamera resolves with a stream of nextDevice: with a
\* video sender replaceTrack(newTrack) is called, without one the tracks
\* are exchanged at once.
AcquireNewTrack(s, u) ==
    LET m  == s.modal[u]
        t  == FreshTrack(m)
        s1 == [s EXCEPT !.modal[u].trackDevice[t] = m.swNext,
                        !.modal[u].liveTracks = @ \cup {t},
                        !.modal[u].swNew = t]
    IN
    IF m.peerConnection = "open" /\ m.senderTrack # 0
    THEN [s1 EXCEPT !.modal[u].sw = "replace"]
    ELSE ExchangeTrack(s1, u)

SwitchGumResolve(u) ==
    /\ modal[u].sw = "gum"
    /\ modal[u].swNext \in devices[u]
    /\ Apply(AcquireNewTrack(State, u))
    /\ UNCHANGED <<dups, third, devices>>

\* CatchSwitchCamera ending the call.
CatchSwitchCameraEndsCall(s, u) ==
    EndCall([s EXCEPT !.modal[u].sw = "idle", !.hist[u].switchFailed = TRUE], u)

\* The catch block of switchCamera: console.error only.
CatchSwitchCamera(s, u) ==
    [s EXCEPT !.modal[u].sw = "idle", !.hist[u].switchFailed = TRUE]

\* getUserMedia of switchCamera rejects (device gone, busy, not permitted).
SwitchGumReject(u) ==
    /\ modal[u].sw = "gum"
    /\ Apply(CatchSwitchCamera(State, u))
    /\ UNCHANGED <<dups, third, devices>>

\* sender.replaceTrack(newTrack) resolves; the tracks are exchanged.
SwitchReplaced(u) ==
    /\ modal[u].sw = "replace"
    /\ PeerSettles(u)
    /\ Apply(ExchangeTrack([State EXCEPT !.modal[u].senderTrack = modal[u].swNew], u))
    /\ UNCHANGED <<dups, third, devices>>

\* sender.replaceTrack(newTrack) rejects: the catch block runs.
SwitchReplaceReject(u) ==
    /\ modal[u].sw = "replace"
    /\ PeerSettles(u)
    /\ Apply(CatchSwitchCamera(State, u))
    /\ UNCHANGED <<dups, third, devices>>

\* ------------------------------------------------------ specifications
\* The two parties' signalling: setup, watches of status and answer,
\* connection state, and every way a call ends.
Next ==
    \/ \E u \in Users : StartCall(u)
    \/ \E u \in Users : AcceptCall(u)
    \/ \E u \in Users : EndClick(u)
    \/ \E u \in Users : ProfileNotify(u)
    \/ \E u \in Users : GumResolve(u)
    \/ \E u \in Users : GumReject(u)
    \/ \E u \in Users : CreateOfferResolve(u)
    \/ \E u \in Users : SetRemoteResolve(u)
    \/ \E u \in Users : CreateAnswerResolve(u)
    \/ \E u \in Users : SetLocalResolve(u)
    \/ \E u \in Users : WriteAck(u)
    \/ \E u \in Users : TimerFire(u)
    \/ \E u \in Users : StatusNotify(u)
    \/ \E u \in Users : AnswerNotify(u)
    \/ \E u \in Users : SrdComplete(u)
    \/ \E u \in Users : ConnectionStateChange(u)

Spec == Init /\ [][Next]_vars

\* The signalling together with the candidate relay.
NextRelay ==
    \/ Next
    \/ \E u \in Users : LocalCandidate(u)
    \/ \E u \in Users : CandidatesNotify(u)

SpecRelay == Init /\ [][NextRelay]_vars

\* Two parties setting up a call and relaying candidates, up to the end of
\* the call by either user: the setup without its failures, the answer and
\* candidate watches and the addIceCandidate calls.
NextCandidates ==
    \/ \E u \in Users : StartCall(u)
    \/ \E u \in Users : AcceptCall(u)
    \/ \E u \in Users : EndClick(u)
    \/ \E u \in Users : ProfileNotify(u)
    \/ \E u \in Users : GumResolve(u)
    \/ \E u \in Users : CreateOfferResolve(u)
    \/ \E u \in Users : SetRemoteResolve(u)
    \/ \E u \in Users : CreateAnswerResolve(u)
    \/ \E u \in Users : SetLocalResolve(u)
    \/ \E u \in Users : WriteAck(u)
    \/ \E u \in Users : AnswerNotify(u)
    \/ \E u \in Users : SrdComplete(u)
    \/ \E u \in Users : LocalCandidate(u)
    \/ \E u \in Users : CandidatesNotify(u)
    \/ \E u \in Users : AddSettles(u)

SpecCandidates == Init /\ [][NextCandidates]_vars

\* A user calling again after a call that failed to capture media: the
\* initiator's setup, its failure and delayed end, and the second call.
NextAgain ==
    \/ \E u \in Users : StartCall(u)
    \/ \E u \in Users : EndClick(u)
    \/ \E u \in Users : GumResolve(u)
    \/ \E u \in Users : GumReject(u)
    \/ \E u \in Users : CreateOfferResolve(u)
    \/ \E u \in Users : SetLocalResolve(u)
    \/ \E u \in Users : WriteAck(u)
    \/ \E u \in Users : TimerFire(u)
    \/ \E u \in Users : StatusNotify(u)
    \/ \E u \in Users : StartAgain(u)
    \/ \E u \in Users : OldTimerFire(u)

SpecAgain == Init /\ [][NextAgain]_vars

\* The two parties' setup and exchange of descriptions with the invited
\* user free to accept or reject, up to the end of the call by either user.
NextReject ==
    \/ \E u \in Users : StartCall(u)
    \/ \E u \in Users : AcceptCall(u)
    \/ \E u \in Users : RejectClick(u)
    \/ \E u \in Users : EndClick(u)
    \/ \E u \in Users : ProfileNotify(u)
    \/ \E u \in Users : GumResolve(u)
    \/ \E u \in Users : CreateOfferResolve(u)
    \/ \E u \in Users : SetRemoteResolve(u)
    \/ \E u \in Users : CreateAnswerResolve(u)
    \/ \E u \in Users : SetLocalResolve(u)
    \/ \E u \in Users : WriteAck(u)
    \/ \E u \in Users : StatusNotify(u)
    \/ \E u \in Users : AnswerNotify(u)
    \/ \E u \in Users : SrdComplete(u)

SpecReject == Init /\ [][NextReject]_vars

\* The signalling together with a third caller of B.
NextThird ==
    \/ Next
    \/ ThirdInvite
    \/ ThirdEnd

SpecThird == Init /\ [][NextThird]_vars

\* The signalling together with a third caller of A, the user who has a
\* partner selected.
NextInbox ==
    \/ Next
    \/ ThirdInviteA
    \/ ThirdEndA

SpecInbox == Init /\ [][NextInbox]_vars

\* One party's capture and camera switching: the call is mounted, acquires
\* its stream and creates its peer session, cameras come and go, and the
\* switch button is used until the call is ended.
NextCamera ==
    \/ \E u \in Users : StartCall(u)
    \/ \E u \in Users : GumResolve(u)
    \/ \E u \in Users : EndClick(u)
    \/ \E u \in Users : Plug(u)
    \/ \E u \in Users : Unplug(u)
    \/ \E u \in Users : EnumerateAtMount(u)
    \/ \E u \in Users : SwitchClick(u)
    \/ \E u \in Users : SwitchEnumerated(u)
    \/ \E u \in Users : SwitchGumResolve(u)
    \/ \E u \in Users : SwitchGumReject(u)
    \/ \E u \in Users : SwitchReplaced(u)
    \/ \E u \in Users : SwitchReplaceReject(u)

SpecCamera == Init /\ [][NextCamera]_vars

\* Camera switching during a call: the two parties' setup and exchange of
\* descriptions, the end of the call by either user, and the switch button
\* with the attached cameras staying as they are.
NextCameraCall ==
    \/ \E u \in Users : StartCall(u)
    \/ \E u \in Users : AcceptCall(u)
    \/ \E u \in Users : EndClick(u)
    \/ \E u \in Users : ProfileNotify(u)
    \/ \E u \in Users : GumResolve(u)
    \/ \E u \in Users : CreateOfferResolve(u)
    \/ \E u \in Users : SetRemoteResolve(u)
    \/ \E u \in Users : CreateAnswerResolve(u)
    \/ \E u \in Users : SetLocalResolve(u)
    \/ \E u \in Users : WriteAck(u)
    \/ \E u \in Users : AnswerNotify(u)
    \/ \E u \in Users : SrdComplete(u)
    \/ \E u \in Users : EnumerateAtMount(u)
    \/ \E u \in Users : SwitchClick(u)
    \/ \E u \in Users : SwitchEnumerated(u)
    \/ \E u \in Users : SwitchGumResolve(u)
    \/ \E u \in Users : SwitchGumReject(u)
    \/ \E u \in Users : SwitchReplaced(u)
    \/ \E u \in Users : SwitchReplaceReject(u)

SpecCameraCall == Init /\ [][NextCameraCall]_vars

\* The signalling together with the failures of the setup: a step of
\* startCall that throws, and store writes the store rejects.
NextFault ==
    \/ Next
    \/ \E u \in Users : PeerCreationThrows(u)
    \/ \E u \in Users : SetupThrow(u)
    \/ \E u \in Users : SetLocalResolveDenied(u)
    \/ \E u \in Users : WriteReject(u)
    \/ \E u \in Users : GumResolveStatusDenied(u)
    \/ \E u \in Users : StatusWriteRejected(u)
    \/ \E u \in Users : CandidateWriteRejected(u)

SpecFault == Init /\ [][NextFault]_vars

\* The signalling under fair delivery of the status watch's notifications.
FairSpec == Spec /\ \A u \in Users : WF_vars(StatusNotify(u))

\* The store acknowledges a write and delivers a changed value of the
\* answer watch, and the browser completes a setRemoteDescription pending
\* on an open peer session; a repeated delivery of an unchanged value is
\* not owed.
FairAnswerDelivery(u) ==
    /\ WF_vars(WriteAck(u))
    /\ WF_vars(AnswerNotify(u) /\ dups' = dups)
    /\ WF_vars(SrdComplete(u))

\* The signalling under fair delivery of acknowledgements and answers.
FairAnswer == Spec /\ \A u \in Users : FairAnswerDelivery(u)

\* The same with the candidate watch and the addIceCandidate calls.
FairDelivery(u) ==
    /\ FairAnswerDelivery(u)
    /\ WF_vars(CandidatesNotify(u) /\ dups' = dups)
    /\ WF_vars(AddSettles(u))

\* The candidate relay under fair delivery.
FairCandidates == SpecCandidates /\ \A u \in Users : FairDelivery(u)

\* ---------------------------------------------------------------- claims
\* The setup of user u has no step pending: startCall has returned.
SetupFinished(u) == modal[u].pc \in {"done", "failed"}

\* C1: for the initiator, whatever the sequence of notifications of the
\* answer watch, the remote description is applied at most once: only the
\* first notification carrying an answer calls setRemoteDescription.
C1_AnswerAppliedAtMostOnce ==
    \A u \in Users : modal[u].isInitiator => hist[u].srdCalls <= 1

\* C2: every candidate a notification of the remote candidate watch has
\* carried was applied to the peer session exactly once.
C2_EachCandidateOnce ==
    \A u \in Users : \A i \in 1..MaxCand :
        i <= watch[u].candSeen => hist[u].addCount[i] = 1

\* A step in which user u invokes end() again, after an earlier end().
RepeatedEnd(u) == hist[u].endCalls >= 1 /\ hist'[u].endCalls > hist[u].endCalls

\* C3: end() is idempotent: the teardown runs at most once per session, and
\* an invocation of end() after the first leaves the store, the session's
\* subscriptions, its capture stream and its peer session as they were, the
\* call view staying closed.
C3_EndIdempotent ==
    [][\A u \in Users :
          /\ hist'[u].cleanups <= 1
          /\ RepeatedEnd(u) =>
                /\ db' = db
                /\ watch' = watch
                /\ hist'[u].cleanups = hist[u].cleanups
                /\ modal'[u].localStream = modal[u].localStream
                /\ modal'[u].peerConnection = modal[u].peerConnection
                /\ ~app[u].isInCall /\ ~app'[u].isInCall]_vars

\* C3, the case: end() was invoked at least twice on a session torn down once.
C3_Witness == \E u \in Users : hist[u].endCalls >= 2 /\ hist[u].cleanups = 1

\* C4: once end() has run and the setup has no step pending, the session
\* holds no live capture track and no open peer session.
C4_ReleasedAfterEnd ==
    \A u \in Users :
        hist[u].cleanups >= 1 /\ SetupFinished(u) =>
            modal[u].localStream # "live" /\ modal[u].peerConnection # "open"

\* C5: once calls/{callId}/status holds 'ended' no write changes it.
C5_EndedIsTerminal ==
    [][\A c \in Calls : db.status[c] = "ended" => db'.status[c] = "ended"]_vars

\* C6: a party's status becomes 'Connected' only in a step in which its own
\* peer session reports the connection state 'connected'.
C6_ActiveOnlyOnConnected ==
    [][\A u \in Users :
          modal[u].connectionStatus # "Connected"
              /\ modal'[u].connectionStatus = "Connected"
          => modal[u].connectionState # "connected"
              /\ modal'[u].connectionState = "connected"]_vars

\* Offer and answer are exchanged and applied on both sides.
DescriptionsExchanged ==
    \A u \in Users :
        /\ modal[u].callId = "cA"
        /\ modal[u].localDescription /\ modal[u].currentRemoteDescription

\* C6, the case: the descriptions are exchanged, A's callback has reported
\* 'connected' and A is Active, B's has not and B is not.
C6_Witness ==
    /\ DescriptionsExchanged
    /\ modal["A"].connectionStatus = "Connected"
    /\ modal["B"].connectionStatus = "Connecting..."
    /\ modal["B"].connectionState # "connected"

\* Both parties reached Active in the call and one of them has ended it.
EndedActiveCall ==
    /\ \A u \in Users : hist[u].everActive /\ modal[u].callId = "cA"
    /\ \E u \in Users : hist[u].cleanups >= 1

\* The call is over on both sides.
BothEnded ==
    /\ db.status["cA"] = "ended"
    /\ db.incomingCall["B"] # "cA"
    /\ \A u \in Users :
          /\ ~app[u].isInCall
          /\ hist[u].cleanups = 1
          /\ modal[u].localStream = "stopped"
          /\ modal[u].peerConnection = "closed"

InvitedAndUnanswered ==
    /\ modal["A"].isInitiator
    /\ modal["A"].pc \in {"inviteWrite", "done"}
    /\ modal["B"].pc = "idle"

C9_RemovesOnlyOwnInvitation ==
    [][\A u \in Users : \A v \in Users :
          hist'[u].cleanups > hist[u].cleanups
              /\ db.incomingCall[v] \notin {None, modal[u].callId}
          => db'.incomingCall[v] = db.incomingCall[v]]_vars

\* C10: once end() has run and the setup has no step pending, no watch of
\* the session is subscribed.
C10_NoWatchAfterEnd ==
    \A u \in Users :
        hist[u].cleanups >= 1 /\ SetupFinished(u) =>
            ~watch[u].status /\ ~watch[u].answer /\ ~watch[u].candidates

\* startCall of user u has entered its catch block and the delay of
\* setTimeout(onEndCall, 3000) has elapsed.
FailureHandled(u) == modal[u].pc = "failed" /\ ~modal[u].timer

\* The cleanup's four effects, seen from user u's session.
Released(u) ==
    /\ modal[u].localStream # "live"
    /\ modal[u].peerConnection # "open"
    /\ db.status[modal[u].callId] = "ended"
    /\ db.incomingCall[IF modal[u].isInitiator THEN selectedPartner[u] ELSE u]
          # modal[u].callId

\* C11: when a setup step after media acquisition has thrown (peer session
\* creation, offer or answer creation, description application, an awaited
\* store write) and the end() the catch block schedules has run, every track
\* of the capture stream is stopped, the peer session is closed, status
\* 'ended' is stored and this side's invitation entry is removed.
C11_ReleasedAfterSetupException ==
    \A u \in Users :
        hist[u].failure \in {"setup", "write"} /\ FailureHandled(u) => Released(u)

\* The step of user u in which getUserMedia rejects.
MediaFailureStep(u) == hist[u].failure = None /\ hist'[u].failure = "media"

\* C12: the step in which media capture fails shows 'Failed to access media
\* devices' on the mounted modal, arms the delay and invokes neither end()
\* nor the cleanup nor any store write; the session never writes an offer,
\* invitation or answer; and end() is invoked for it when the delay elapses.
C12_MediaFailureEndsAfterDelay ==
    [][\A u \in Users :
          /\ MediaFailureStep(u) =>
                /\ app[u].isInCall =>
                      modal'[u].connectionStatus = "Failed to access media devices"
                /\ modal'[u].connectionStatus # "Disconnected"
                /\ modal'[u].timer
                /\ hist'[u].endCalls = hist[u].endCalls
                /\ hist'[u].cleanups = hist[u].cleanups
                /\ db' = db
          /\ hist[u].failure = "media" =>
                /\ hist'[u].offerCalls = 0 /\ hist'[u].answerCalls = 0
                /\ ~hist'[u].wroteInvite /\ ~hist'[u].wroteAnswer
                /\ modal[u].timer /\ ~modal'[u].timer
                      => hist[u].endCalls = MaxEndLog
                         \/ hist'[u].endCalls = hist[u].endCalls + 1
      ]_vars

\* Media capture failed on the mounted modal, the delay elapsed and the
\* end() it scheduled unmounted the modal.
C12_Witness ==
    \E u \in Users :
        /\ hist[u].failure = "media"
        /\ modal[u].connectionStatus = "Failed to access media devices"
        /\ FailureHandled(u)
        /\ hist[u].endCalls = 1 /\ hist[u].cleanups = 1

\* C13: the step in which a store write of the signalling (status,
\* invitation, answer, candidate) is rejected shows a failure status on the
\* mounted modal and schedules the end of the session; a rejected write is
\* not issued again.
C13_RejectedWriteSurfaced ==
    [][\A u \in Users :
          /\ hist'[u].rejected # hist[u].rejected /\ app[u].isInCall =>
                /\ modal'[u].connectionStatus = "Failed to access media devices"
                /\ modal'[u].timer
          /\ "invitation" \in hist[u].rejected => ~hist'[u].wroteInvite
          /\ "answer" \in hist[u].rejected => ~hist'[u].wroteAnswer
      ]_vars

\* The step in which user u's connection-state callback reads state st.  A
\* mounted modal shows 'Disconnected' for 'failed' and 'disconnected', which
\* nothing else shows; otherwise the peer session's state becomes st.
ReportStep(u, st) ==
    \/ /\ modal'[u].connectionState = st
       /\ modal[u].connectionState # st
    \/ /\ st \in {"failed", "disconnected"}
       /\ modal'[u].connectionStatus = "Disconnected"
       /\ modal[u].connectionStatus # "Disconnected"

\* What one invocation of end() by user u does in a step: App leaves the
\* call, and a mounted modal is unmounted and cleaned up.
EndInvoked(u) ==
    /\ hist'[u].endCalls = Min(hist[u].endCalls + 1, MaxEndLog)
    /\ ~app'[u].isInCall /\ app'[u].incomingCall = None
    /\ hist'[u].cleanups = hist[u].cleanups + (IF app[u].isInCall THEN 1 ELSE 0)

\* C14: a step in which the connection-state callback reads 'failed' or
\* 'disconnected' invokes end(), whether or not the call was ever shown
\* connected; a step in which it reads another state does not.
C14_EndOnFailedOrDisconnected ==
    [][\A u \in Users :
          /\ \A st \in {"failed", "disconnected"} : ReportStep(u, st) => EndInvoked(u)
          /\ \A st \in {"connecting", "connected"} :
                ReportStep(u, st) => /\ hist'[u].endCalls = hist[u].endCalls
                                     /\ hist'[u].cleanups = hist[u].cleanups
                                     /\ app'[u].isInCall = app[u].isInCall
      ]_vars

\* A's call ended on such a report after it had been shown connected, B's
\* while still negotiating.
C14_Witness ==
    /\ modal["A"].connectionStatus = "Disconnected" /\ hist["A"].everActive
    /\ hist["A"].endCalls = 1 /\ hist["A"].cleanups = 1
    /\ modal["B"].connectionStatus = "Disconnected" /\ ~hist["B"].everActive
    /\ hist["B"].endCalls = 1 /\ hist["B"].cleanups = 1

\* Both parties of session c have ended: each one's modal was mounted for c,
\* has shown the call connected and has been unmounted.
BothPartiesEnded(c) ==
    \A u \in Users :
        modal[u].callId = c /\ hist[u].everActive /\ hist[u].cleanups >= 1

\* C15: once both parties of an established session have ended, the store holds neither
\* its invitation nor its answer nor a candidate of either party.
C15_NoArtifactAfterEnd ==
    \A c \in Calls :
        BothPartiesEnded(c) =>
            /\ \A u \in Users : db.incomingCall[u] # c
            /\ ~db.answer[c]
            /\ \A o \in Owners : db.candidates[c][o] = 0

\* C16: a session mounted by App.startCall is an initiator session with the
\* fresh callId, a session mounted by App.acceptCall a responder session for
\* the callId of an invitation, whatever the user's inbox slot holds.
C16_RoleFixedByOperation ==
    \A u \in Users :
        /\ hist[u].createdBy = "start" =>
              modal[u].isInitiator /\ modal[u].callId = NewCallId(u)
        /\ hist[u].createdBy = "accept" =>
              ~modal[u].isInitiator /\ modal[u].callId \in Calls

\* The video track of user u's stream, the track its sender sends and the
\* tracks created so far.
VideoTracks(m) == <<m.videoTrack, m.senderTrack, m.trackDevice>>

\* C17: when the enumeration of a call of switchCamera returns exactly one
\* camera, the call finishes there: no capture stream is requested and the
\* stream's video track and the sender's track stay as they are.
C17_NoSwitchWithOneCamera ==
    [][\A u \in Users :
          /\ modal[u].sw = "enum" /\ modal'[u].sw # "enum"
          /\ Cardinality(devices[u]) = 1
          => /\ modal'[u].sw = "idle"
             /\ VideoTracks(modal'[u]) = VideoTracks(modal[u])
      ]_vars

\* The step in which getUserMedia of user u's switchCamera rejects: the
\* call of switchCamera finishes without a new track.
SwitchAcquisitionFails(u) ==
    /\ modal[u].sw = "gum" /\ modal'[u].sw = "idle"
    /\ modal'[u].trackDevice = modal[u].trackDevice

\* C18: the step in which the acquisition of the new camera's stream fails
\* does not end the session and leaves the stream's video track, the
\* sender's track, the preview, the live tracks and the store as they are.
C18_SwitchFailureNotFatal ==
    [][\A u \in Users :
          SwitchAcquisitionFails(u) =>
             /\ app' = app
             /\ hist'[u].endCalls = hist[u].endCalls
             /\ hist'[u].cleanups = hist[u].cleanups
             /\ VideoTracks(modal'[u]) = VideoTracks(modal[u])
             /\ modal'[u].preview = modal[u].preview
             /\ modal'[u].liveTracks = modal[u].liveTracks
             /\ modal'[u].localStream = modal[u].localStream
             /\ modal'[u].peerConnection = modal[u].peerConnection
             /\ db' = db
      ]_vars

\* A switchCamera of a mounted call has failed to acquire its stream, and
\* the call goes on with its first track, live and sent.
C18_Witness ==
    \E u \in Users :
        /\ hist[u].switchFailed /\ modal[u].sw = "idle"
        /\ \A t \in Tracks : t > 1 => modal[u].trackDevice[t] = 0
        /\ app[u].isInCall /\ modal[u].peerConnection = "open"
        /\ modal[u].videoTrack = 1 /\ modal[u].senderTrack = 1
        /\ modal[u].liveTracks = {1} /\ modal[u].preview = "localStream"

\* C19: a session calls createOffer or createAnswer, by its role and never
\* both, at most once, and applies the other side's description at most
\* once; when startCall has returned normally each of the two was done once
\* by the responder, and the offer was created once by the initiator.
C19_OneDescriptionEachWay ==
    \A u \in Users :
        /\ hist[u].offerCalls + hist[u].answerCalls <= 1
        /\ hist[u].offerCalls = 1 => modal[u].isInitiator
        /\ hist[u].answerCalls = 1 => ~modal[u].isInitiator
        /\ hist[u].srdCalls <= 1
        /\ modal[u].pc = "done" =>
              IF modal[u].isInitiator
              THEN hist[u].offerCalls = 1
              ELSE hist[u].answerCalls = 1 /\ hist[u].srdCalls = 1

\* C20: the step that stores the answer of session c is taken by a responder
\* of c whose setRemoteDescription(offer) had completed and whose answer was
\* created and is set as local description; and an answer is stored only
\* for a session whose invitation (offer) has been written.
C20_AnswerAfterOffer ==
    [][\A c \in Calls :
          /\ ~db.answer[c] /\ db'.answer[c] =>
                \E u \in Users :
                    /\ modal[u].callId = c /\ ~modal[u].isInitiator
                    /\ modal[u].currentRemoteDescription
                    /\ hist[u].srdCalls = 1 /\ hist[u].answerCalls = 1
                    /\ ~modal[u].localDescription /\ modal'[u].localDescription
                    /\ hist'[u].wroteAnswer
          /\ db'.answer[c] =>
                IF c = "cA" THEN hist'["A"].wroteInvite ELSE third' # "idle"
      ]_vars

\* B has answered A's invitation.
C20_Witness ==
    /\ db.answer["cA"] /\ hist["A"].wroteInvite
    /\ modal["B"].callId = "cA" /\ hist["B"].wroteAnswer
    /\ modal["B"].currentRemoteDescription /\ modal["B"].localDescription

\* C21: the initiator's signalling steps, each taken at most once and in
\* this order: status 'active' is written and createOffer called once the
\* stream is acquired and the peer session with its callbacks exists; the
\* offer becomes the local description; the invitation is written; the
\* answer watch is registered.
C21_InitiatorStepOrder ==
    [][\A u \in Users :
          /\ hist'[u].statusWrites # hist[u].statusWrites =>
                /\ hist[u].statusWrites = 0 /\ hist'[u].statusWrites = 1
                /\ hist[u].offerCalls = 0 /\ hist'[u].offerCalls = 1
                /\ modal'[u].localStream = "live" /\ modal'[u].peerConnection = "open"
                /\ modal'[u].senderTrack # 0
                /\ ~modal'[u].localDescription /\ ~hist'[u].wroteInvite
                /\ ~watch'[u].answer
          /\ modal'[u].isInitiator
             /\ ~modal[u].localDescription /\ modal'[u].localDescription =>
                /\ hist[u].statusWrites = 1 /\ hist[u].offerCalls = 1
                /\ ~hist[u].wroteInvite /\ ~watch[u].answer
          /\ ~hist[u].wroteInvite /\ hist'[u].wroteInvite =>
                /\ hist[u].statusWrites = 1
                /\ modal'[u].localDescription
                /\ ~watch'[u].answer /\ modal[u].pc # "done"
          /\ ~watch[u].answer /\ watch'[u].answer =>
                /\ hist[u].wroteInvite
                /\ modal[u].pc = "inviteWrite" /\ modal'[u].pc = "done"
      ]_vars

\* A has taken all four steps and is waiting for the answer.
C21_Witness ==
    /\ modal["A"].isInitiator /\ modal["A"].pc = "done"
    /\ hist["A"].statusWrites = 1 /\ hist["A"].offerCalls = 1
    /\ modal["A"].localDescription /\ hist["A"].wroteInvite
    /\ watch["A"].answer /\ hist["A"].cleanups = 0

\* C22: at no time are two addIceCandidate calls on a peer session
\* unsettled together.
C22_CandidateApplySerialized ==
    \A u \in Users : modal[u].addPending <= 1

\* C23: the step of an event of an earlier, ended session of user u (its
\* delayed end firing) neither ends nor changes the session u has mounted
\* since, nor the store.
C23_SessionsIsolated ==
    [][\A u \in Users :
          modal[u].oldTimer /\ ~modal'[u].oldTimer =>
             /\ app'[u] = app[u]
             /\ hist'[u].cleanups = hist[u].cleanups
             /\ modal'[u] = [modal[u] EXCEPT !.oldTimer = FALSE]
             /\ watch'[u] = watch[u]
             /\ db' = db
      ]_vars

\* The step in which a switchCamera of user u's mounted call completes with
\* a new track in the stream.
SwitchSucceeds(u) ==
    /\ app[u].isInCall /\ app'[u].isInCall
    /\ modal[u].sw # "idle" /\ modal'[u].sw = "idle"
    /\ modal'[u].videoTrack # modal[u].videoTrack

\* C24: when a switchCamera completes with a new track, that track is the
\* stream's, the sender's and the preview's, and no other capture track of
\* the session is live: the track active before has been stopped.
C24_OneLiveTrackAfterSwitch ==
    [][\A u \in Users :
          SwitchSucceeds(u) =>
             /\ modal'[u].videoTrack = modal[u].swNew
             /\ modal'[u].senderTrack = modal'[u].videoTrack
             /\ modal'[u].preview = "localStream"
             /\ modal'[u].liveTracks \subseteq {modal'[u].videoTrack}
      ]_vars

\* The device active after k switches from device d, the attached cameras
\* staying ds.
RECURSIVE AfterSwitches(_, _, _)
AfterSwitches(ds, d, k) ==
    IF k = 0 THEN d ELSE NextDevice(ds, AfterSwitches(ds, d, k - 1))

Negotiated(u) ==
    <<modal[u].localDescription, modal[u].currentRemoteDescription,
      modal[u].srdPending, modal[u].pc, modal[u].connectionState,
      modal[u].connectionStatus, modal[u].peerConnection,
      hist[u].offerCalls, hist[u].answerCalls, hist[u].srdCalls,
      hist[u].statusWrites, hist[u].wroteInvite, hist[u].wroteAnswer,
      hist[u].endCalls, hist[u].cleanups>>

\* C26: no step of switchCamera (the click, the enumeration, the capture
\* resolving or rejecting, replaceTrack resolving or rejecting) creates or
\* applies a description or writes the store: the session's descriptions,
\* its status and every store key are as before the step.
C26_SwitchDoesNotRenegotiate ==
    [][\A u \in Users :
          modal'[u].sw # modal[u].sw =>
             /\ db' = db
             /\ Negotiated(u)' = Negotiated(u)
             /\ app' = app
             /\ watch' = watch
      ]_vars

\* A call with both descriptions in place and the answer in the store has
\* switched its camera: the second track is the stream's and the sender's.
C26_Witness ==
    \E u \in Users :
        /\ app[u].isInCall /\ modal[u].sw = "idle"
        /\ modal[u].localDescription /\ modal[u].currentRemoteDescription
        /\ db.answer[modal[u].callId]
        /\ modal[u].videoTrack = 2 /\ modal[u].senderTrack = 2

\* C27: once the cleanup of an initiator's session has run, no step writes
\* the store for that session: status 'active' is not written, and the
\* partner's inbox is not given the session's invitation.
C27_NoWriteAfterEnd ==
    [][\A u \in Users :
          modal[u].isInitiator /\ hist[u].cleanups > 0 =>
             /\ hist'[u].statusWrites = hist[u].statusWrites
             /\ hist'[u].wroteInvite = hist[u].wroteInvite
             /\ db'.incomingCall[selectedPartner[u]] = modal[u].callId
                   => db.incomingCall[selectedPartner[u]] = modal[u].callId
      ]_vars

\* The initiator of call c has its session mounted and has not ended it.
InitiatorHolds(c) ==
    LET v == CallerId(c) IN
    /\ v \in Users
    /\ modal[v].callId = c /\ app[v].isInCall /\ hist[v].cleanups = 0

\* C28: the step in which user u rejects an invitation empties u's inbox
\* slot and u's incoming-call state, mounts nothing, writes no key under
\* calls/ and changes no session; and as long as the initiator of a
\* rejected call has not ended its session, the call's status is not
\* 'ended' and the initiator's modal still shows it negotiating.
C28_RejectLeavesSession ==
    [][\A u \in Users :
          /\ hist'[u].declined # hist[u].declined =>
                /\ hist'[u].declined = app[u].incomingCall
                /\ db'.incomingCall[u] = None
                /\ app'[u].incomingCall = None /\ ~app'[u].isInCall
                /\ db'.status = db.status
                /\ db'.answer = db.answer
                /\ db'.candidates = db.candidates
                /\ modal' = modal /\ watch' = watch
                /\ \A v \in Users \ {u} : app'[v] = app[v] /\ hist'[v] = hist[v]
          /\ LET c == hist'[u].declined
                 v == CallerId(c)
             IN
             /\ c # None /\ v \in Users
             /\ modal'[v].callId = c /\ app'[v].isInCall /\ hist'[v].cleanups = 0
             => /\ db'.status[c] # "ended"
                /\ modal'[v].connectionStatus = "Connecting..."
                /\ hist'[v].endCalls = 0
      ]_vars

\* B has rejected A's invitation: B's inbox is empty, the call's status is
\* still 'active', and A's modal is mounted with its answer watch waiting.
C28_Witness ==
    /\ hist["B"].declined = "cA"
    /\ InitiatorHolds("cA")
    /\ db.incomingCall["B"] = None /\ app["B"].incomingCall = None
    /\ db.status["cA"] = "active"
    /\ watch["A"].answer /\ modal["A"].pc = "done"

\* User u's session is mounted and has not been ended.
Alive(u) == app[u].isInCall /\ hist[u].cleanups = 0

\* The candidates the partner of user u has published for u's session.
Published(u) == db.candidates[modal[u].callId][PartnerId(u, modal[u])]

\* C29: under fair delivery every candidate the partner has published for
\* a session whose candidate watch is registered is eventually added to the
\* peer session with the remote description in place, unless the session
\* is ended.
C29_NoCandidateLost ==
    \A u \in Users : \A i \in 1..MaxCand :
        (watch[u].candidates /\ Alive(u) /\ Published(u) >= i)
            ~> (i \in hist[u].applied \/ ~Alive(u))

\* C30: under fair delivery, once the answer is in the store for the
\* session of an initiator, whether or not its answer watch is registered
\* yet, the initiator eventually has the answer as its remote description,
\* unless its session is ended.
C30_AnswerNeverMissed ==
    \A u \in Users :
        (modal[u].isInitiator /\ hist[u].wroteInvite /\ Alive(u)
            /\ db.answer[modal[u].callId])
            ~> (modal[u].currentRemoteDescription \/ ~Alive(u))

\* The initiator A, still in its call, has applied B's answer once and has
\* it as its remote description.
C30_Witness ==
    /\ modal["A"].isInitiator /\ Alive("A")
    /\ hist["B"].wroteAnswer /\ db.answer["cA"]
    /\ watch["A"].answerSeen = "answer"
    /\ hist["A"].srdCalls = 1 /\ hist["A"].srdErrors = 0
    /\ modal["A"].currentRemoteDescription /\ modal["A"].srdPending = 0
====
